---- MODULE Spec2Model ----
(***************************************************************************)
(* BenBot backend (src/main.py): the POST /chat handler as a state         *)
(* machine.  A request is received, the credential is read, last_user and  *)
(* kb are computed, the payload is posted upstream (the handler's single   *)
(* suspension point), and the upstream outcome is mapped to the reply.     *)
(*                                                                         *)
(* A Python str is a sequence of characters (one-character strings; the    *)
(* em dash, which the module's character set lacks, is the token           *)
(* "EMDASH").  A Python/JSON value is a record [t |-> type, v |-> value].  *)
(***************************************************************************)
EXTENDS Integers, Sequences, FiniteSets, TLC

----------------------------------------------------------------------------
\* Python values.

PyNone == [t |-> "None", v |-> << >>]

PyStr(s) == [t |-> "str", v |-> s]

PyInt(n) == [t |-> "int", v |-> n]

PyBool(b) == [t |-> "bool", v |-> b]

PyList(xs) == [t |-> "list", v |-> xs]

\* A dict is its items in insertion order, each << key, value >>, keys distinct.
PyDict(items) == [t |-> "dict", v |-> items]

\* The outcome of evaluating an expression: a value, or an exception raised.
Value(x) == [raised |-> FALSE, val |-> x]

Raised == [raised |-> TRUE, val |-> PyNone]

----------------------------------------------------------------------------
\* Records of the program.

\* class Msg(BaseModel): role: str; content: str
Msg(role, content) == [role |-> role, content |-> content]

\* payload = {"model": ..., "temperature": ..., "messages": [...]}
Payload(model, temperature, messages) ==
    [model |-> model, temperature |-> temperature, messages |-> messages]

\* class ChatReq(BaseModel): messages: List[Msg] = []; kb: Optional[str] = None
ChatReq(messages, kb) == [messages |-> messages, kb |-> kb]

\* headers = {"Authorization": ..., "Content-Type": "application/json"}
Headers(authorization) ==
    [Authorization |-> authorization, ContentType |-> "application/json"]

\* client.post(url, headers=headers, json=payload) of a client with the timeout
ClientPost(url, headers, json, timeout) ==
    [url |-> url, headers |-> headers, json |-> json, timeout |-> timeout]

\* What `r = await client.post(...); data = r.json()` produces: kind "post" when
\* client.post raised, "decode" when r.json() raised, "json" when data is there.
Outcome(kind, status_code, text, data) ==
    [kind |-> kind, status_code |-> status_code, text |-> text, data |-> data]

\* An HTTP response of POST /chat.
Response(code, body) == [status_code |-> code, body |-> body]

VARIABLES
    api_key,     \* os.getenv("DEEPSEEK_API_KEY") of the process
    pc,          \* per request: "idle", "awaiting" (suspended at client.post), "done"
    req,         \* per request: the ChatReq body
    last_user,   \* per request: the handler's local last_user
    kb,          \* per request: the handler's local kb
    sent,        \* per request: the upstream calls issued, in order
    outcome,     \* per request: what the upstream call produced
    responses    \* per request: the HTTP responses produced, in order

vars == << api_key, pc, req, last_user, kb, sent, outcome, responses >>

----------------------------------------------------------------------------
\* Bounds of the model.

\* Longest messages list of a request.
MaxMsgs == 3

\* Number of requests handled concurrently in SpecConc.
NumReq == 2

----------------------------------------------------------------------------
\* Python values: truth, items.

\* bool(x): what `not x` and `x or y` test.
Truthy(x) ==
    CASE x.t = "None" -> FALSE
      [] x.t = "bool" -> x.v
      [] x.t = "int"  -> x.v # 0
      [] OTHER        -> Len(x.v) > 0

\* x or y
Or(x, y) == IF Truthy(x) THEN x ELSE y

\* dict.get(key): the value of the key, None when the key is absent.
Get(d, key) ==
    LET hits == { k \in 1..Len(d.v) : d.v[k][1] = key }
    IN  IF hits = {} THEN PyNone ELSE d.v[CHOOSE k \in hits : TRUE][2]

----------------------------------------------------------------------------
\* str operations.

\* The characters str.strip() removes that the model's character set has.
Whitespace == { " ", "\t", "\n", "\r", "\f" }

RECURSIVE LStrip(_)
LStrip(s) ==
    IF s # << >> /\ Head(s) \in Whitespace THEN LStrip(Tail(s)) ELSE s

RECURSIVE RStrip(_)
RStrip(s) ==
    IF s # << >> /\ s[Len(s)] \in Whitespace
    THEN RStrip(SubSeq(s, 1, Len(s) - 1))
    ELSE s

\* s.strip()
Strip(s) == RStrip(LStrip(s))

UpperCase ==
    << "A", "B", "C", "D", "E", "F", "G", "H", "I", "J", "K", "L", "M",
       "N", "O", "P", "Q", "R", "S", "T", "U", "V", "W", "X", "Y", "Z" >>

LowerCase ==
    << "a", "b", "c", "d", "e", "f", "g", "h", "i", "j", "k", "l", "m",
       "n", "o", "p", "q", "r", "s", "t", "u", "v", "w", "x", "y", "z" >>

LowerChar(c) ==
    IF \E k \in 1..Len(UpperCase) : UpperCase[k] = c
    THEN LowerCase[CHOOSE k \in 1..Len(UpperCase) : UpperCase[k] = c]
    ELSE c

\* s.lower()
Lower(s) == [k \in 1..Len(s) |-> LowerChar(s[k])]

\* needle in s
Contains(s, needle) ==
    \E k \in 0..(Len(s) - Len(needle)) : SubSeq(s, k + 1, k + Len(needle)) = needle

Digits == << "0", "1", "2", "3", "4", "5", "6", "7", "8", "9" >>

RECURSIVE NatStr(_)
NatStr(n) ==
    IF n < 10 THEN << Digits[n + 1] >>
    ELSE NatStr(n \div 10) \o << Digits[(n % 10) + 1] >>

\* str(n) of an int
IntStr(n) == IF n < 0 THEN << "-" >> \o NatStr(-n) ELSE NatStr(n)

\* repr of one character inside a str literal quoted with q
EscapeChar(c, q) ==
    CASE c = "\\" -> << "\\", "\\" >>
      [] c = q    -> << "\\", q >>
      [] c = "\n" -> << "\\", "n" >>
      [] c = "\t" -> << "\\", "t" >>
      [] c = "\r" -> << "\\", "r" >>
      [] c = "\f" -> << "\\", "x", "0", "c" >>
      [] OTHER    -> << c >>

RECURSIVE Escape(_, _)
Escape(s, q) ==
    IF s = << >> THEN << >> ELSE EscapeChar(Head(s), q) \o Escape(Tail(s), q)

\* repr(s) of a str: single quotes, unless s has a single and no double quote
StrRepr(s) ==
    LET q == IF (\E k \in 1..Len(s) : s[k] = "'") /\ ~(\E k \in 1..Len(s) : s[k] = "\"")
             THEN "\"" ELSE "'"
    IN  << q >> \o Escape(s, q) \o << q >>

NoneText ==
    << "N", "o", "n", "e" >>

TrueText ==
    << "T", "r", "u", "e" >>

FalseText ==
    << "F", "a", "l", "s", "e" >>

CommaSpace ==
    << ",", " " >>

ColonSpace ==
    << ":", " " >>


\* repr(x)
RECURSIVE Repr(_)
RECURSIVE ReprItems(_, _)
ReprItems(xs, isDict) ==
    IF xs = << >> THEN << >>
    ELSE LET one == IF isDict
                    THEN StrRepr(Head(xs)[1]) \o ColonSpace \o Repr(Head(xs)[2])
                    ELSE Repr(Head(xs))
         IN  IF Len(xs) = 1 THEN one
             ELSE one \o CommaSpace \o ReprItems(Tail(xs), isDict)

Repr(x) ==
    CASE x.t = "None" -> NoneText
      [] x.t = "bool" -> IF x.v THEN TrueText ELSE FalseText
      [] x.t = "int"  -> IntStr(x.v)
      [] x.t = "str"  -> StrRepr(x.v)
      [] x.t = "list" -> << "[" >> \o ReprItems(x.v, FALSE) \o << "]" >>
      [] OTHER        -> << "{" >> \o ReprItems(x.v, TRUE) \o << "}" >>

\* str(x), also what an f-string's {x} formats to
Str(x) == IF x.t = "str" THEN x.v ELSE Repr(x)

----------------------------------------------------------------------------
\* Literals of src/main.py.

DEEPSEEK_API_URL == "https://api.deepseek.com/v1/chat/completions"

\* timeout=60 of httpx.AsyncClient: past it the call raises (a transport failure)
ClientTimeout == 60

MisconfiguredAnswer ==
    << "S", "e", "r", "v", "e", "r", " ", "m", "i", "s", "c", "o", "n", "f", "i", "g",
       "u", "r", "e", "d", ":", " ", "D", "E", "E", "P", "S", "E", "E", "K", "_", "A",
       "P", "I", "_", "K", "E", "Y", " ", "i", "s", " ", "m", "i", "s", "s", "i", "n",
       "g", " ", "o", "n", " ", "R", "e", "n", "d", "e", "r", " ", "e", "n", "v", " ",
       "v", "a", "r", "s", "." >>

system_prompt_literal ==
    << "\n", "Y", "o", "u", " ", "a", "r", "e", " ", "B", "e", "n", "B", "o", "t", ",",
       " ", "t", "h", "e", " ", "p", "e", "r", "s", "o", "n", "a", "l", " ", "w", "e",
       "b", "s", "i", "t", "e", " ", "a", "s", "s", "i", "s", "t", "a", "n", "t", " ",
       "f", "o", "r", " ", "Z", "h", "e", "f", "a", "n", " ", "(", "B", "e", "n", ")",
       " ", "G", "u", "o", ".", "\n", "\n", "H", "a", "r", "d", " ", "r", "u", "l", "e",
       "s", ":", "\n", "-", " ", "U", "s", "e", " ", "O", "N", "L", "Y", " ", "f", "a",
       "c", "t", "s", " ", "t", "h", "a", "t", " ", "a", "p", "p", "e", "a", "r", " ",
       "i", "n", " ", "t", "h", "e", " ", "K", "n", "o", "w", "l", "e", "d", "g", "e",
       " ", "B", "a", "s", "e", ".", "\n", "-", " ", "I", "f", " ", "t", "h", "e", " ",
       "K", "n", "o", "w", "l", "e", "d", "g", "e", " ", "B", "a", "s", "e", " ", "d",
       "o", "e", "s", " ", "n", "o", "t", " ", "c", "o", "n", "t", "a", "i", "n", " ",
       "t", "h", "e", " ", "a", "n", "s", "w", "e", "r", ",", " ", "s", "a", "y", " ",
       "y", "o", "u", " ", "d", "o", "n", "'", "t", " ", "h", "a", "v", "e", " ", "t",
       "h", "a", "t", " ", "i", "n", "f", "o", "r", "m", "a", "t", "i", "o", "n", ".",
       "\n", "-", " ", "D", "o", " ", "N", "O", "T", " ", "i", "n", "v", "e", "n", "t",
       " ", "n", "a", "m", "e", "s", ",", " ", "l", "a", "b", "s", ",", " ", "a", "c",
       "h", "i", "e", "v", "e", "m", "e", "n", "t", "s", ",", " ", "d", "a", "t", "e",
       "s", ",", " ", "o", "r", " ", "l", "i", "n", "k", "s", ".", "\n", "-", " ", "I",
       "f", " ", "n", "o", "t", " ", "i", "n", " ", "K", "B", ":", " ", "s", "a", "y",
       " ", "y", "o", "u", " ", "d", "o", "n", "'", "t", " ", "h", "a", "v", "e", " ",
       "t", "h", "a", "t", " ", "i", "n", "f", "o", "r", "m", "a", "t", "i", "o", "n",
       ",", " ", "a", "n", "d", " ", "o", "p", "t", "i", "o", "n", "a", "l", "l", "y",
       " ", "s", "u", "g", "g", "e", "s", "t", " ", "c", "h", "e", "c", "k", "i", "n",
       "g", " ", "t", "h", "e", " ", "r", "e", "s", "u", "m", "e", ".", "\n", "-", " ",
       "D", "o", " ", "N", "O", "T", " ", "u", "s", "e", " ", "M", "a", "r", "k", "d",
       "o", "w", "n", " ", "l", "i", "n", "k", "s", ".", " ", "I", "f", " ", "s", "h",
       "a", "r", "i", "n", "g", " ", "a", " ", "l", "i", "n", "k", ",", " ", "o", "u",
       "t", "p", "u", "t", " ", "t", "h", "e", " ", "r", "a", "w", " ", "U", "R", "L",
       " ", "o", "n", "l", "y", ".", "\n", "-", " ", "D", "o", " ", "N", "O", "T", " ",
       "u", "s", "e", " ", "a", "n", "y", " ", "M", "a", "r", "k", "d", "o", "w", "n",
       " ", "f", "o", "r", "m", "a", "t", "t", "i", "n", "g", " ", "(", "n", "o", " ",
       "*", "*", "b", "o", "l", "d", "*", "*", ",", " ", "n", "o", " ", "b", "a", "c",
       "k", "t", "i", "c", "k", "s", ",", " ", "n", "o", " ", "m", "a", "r", "k", "d",
       "o", "w", "n", " ", "b", "u", "l", "l", "e", "t", "s", ")", ".", "\n", "-", " ",
       "W", "h", "e", "n", " ", "s", "h", "a", "r", "i", "n", "g", " ", "a", "n", "y",
       " ", "l", "i", "n", "k", ",", " ", "o", "u", "t", "p", "u", "t", " ", "t", "h",
       "e", " ", "r", "a", "w", " ", "U", "R", "L", " ", "o", "n", "l", "y", " ", "(",
       "n", "o", " ", "s", "u", "r", "r", "o", "u", "n", "d", "i", "n", "g", " ", "p",
       "u", "n", "c", "t", "u", "a", "t", "i", "o", "n", " ", "l", "i", "k", "e", " ",
       "*", "*", " ", "o", "r", " ", "p", "a", "r", "e", "n", "t", "h", "e", "s", "e",
       "s", ")", ".", "\n", "\n", "S", "t", "y", "l", "e", ":", "\n", "-", " ", "S", "o",
       "u", "n", "d", " ", "f", "r", "i", "e", "n", "d", "l", "y", " ", "a", "n", "d",
       " ", "h", "u", "m", "a", "n", ",", " ", "n", "o", "t", " ", "l", "i", "k", "e",
       " ", "a", " ", "t", "e", "m", "p", "l", "a", "t", "e", ".", "\n", "-", " ", "V",
       "a", "r", "y", " ", "p", "h", "r", "a", "s", "i", "n", "g", " ", "(", "a", "v",
       "o", "i", "d", " ", "r", "e", "p", "e", "a", "t", "i", "n", "g", " ", "t", "h",
       "e", " ", "s", "a", "m", "e", " ", "s", "e", "n", "t", "e", "n", "c", "e", " ",
       "p", "a", "t", "t", "e", "r", "n", "s", ")", ".", "\n", "-", " ", "P", "r", "e",
       "f", "e", "r", " ", "s", "h", "o", "r", "t", " ", "p", "a", "r", "a", "g", "r",
       "a", "p", "h", "s", " ", "a", "n", "d", " ", "b", "u", "l", "l", "e", "t", " ",
       "p", "o", "i", "n", "t", "s", " ", "w", "h", "e", "n", " ", "h", "e", "l", "p",
       "f", "u", "l", ".", "\n", "-", " ", "Y", "o", "u", " ", "m", "a", "y", " ", "a",
       "d", "d", " ", "l", "i", "g", "h", "t", " ", "c", "o", "n", "v", "e", "r", "s",
       "a", "t", "i", "o", "n", "a", "l", " ", "p", "h", "r", "a", "s", "e", "s", " ",
       "a", "s", " ", "l", "o", "n", "g", " ", "a", "s", " ", "y", "o", "u", " ", "d",
       "o", " ", "N", "O", "T", " ", "a", "d", "d", " ", "n", "e", "w", " ", "f", "a",
       "c", "t", "s", ".", "\n", "-", " ", "M", "a", "k", "e", " ", "s", "u", "r", "e",
       " ", "y", "o", "u", " ", "a", "c", "t", " ", "l", "i", "k", "e", " ", "a", " ",
       "v", "i", "v", "i", "d", " ", "c", "h", "a", "t", "A", "g", "e", "n", "t", "\n",
       "-", " ", "Y", "o", "u", " ", "c", "a", "n", " ", "a", "l", "s", "o", " ", "i",
       "n", "c", "l", "u", "d", "e", " ", "s", "o", "m", "e", " ", "E", "m", "o", "j",
       "i", "s", ",", " ", "b", "u", "t", " ", "n", "o", "t", " ", "t", "o", "o", " ",
       "o", "f", "t", "e", "n", ".", "\n", "-", " ", "I", "f", " ", "t", "h", "e", " ",
       "u", "s", "e", "r", " ", "a", "s", "k", "s", " ", "\"", "w", "h", "o", " ", "a",
       "r", "e", " ", "y", "o", "u", "\"", " ", "o", "r", " ", "\"", "w", "h", "o", " ",
       "i", "s", " ", "B", "e", "n", "\"", ",", " ", "g", "i", "v", "e", " ", "a", " ",
       "2", "-", "4", " ", "s", "e", "n", "t", "e", "n", "c", "e", " ", "i", "n", "t",
       "r", "o", ",", " ", "t", "h", "e", "n", " ", "o", "f", "f", "e", "r", " ", "w",
       "h", "a", "t", " ", "t", "h", "e", "y", " ", "c", "a", "n", " ", "a", "s", "k",
       " ", "n", "e", "x", "t", ".", "\n", "\n", "L", "a", "n", "g", "u", "a", "g", "e",
       ":", " ", "E", "n", "g", "l", "i", "s", "h", ".", "\n" >>

system_prompt == Strip(system_prompt_literal)

style_examples_literal ==
    << "\n", "E", "x", "a", "m", "p", "l", "e", "s", " ", "(", "s", "t", "y", "l", "e",
       " ", "o", "n", "l", "y", ")", ":", "\n", "U", "s", "e", "r", ":", " ", "w", "h",
       "a", "t", "'", "s", " ", "m", "y", " ", "e", "m", "a", "i", "l", "?", "\n", "A",
       "s", "s", "i", "s", "t", "a", "n", "t", ":", " ", "S", "u", "r", "e", " ", "EMDASH",
       " ", "B", "e", "n", "'", "s", " ", "e", "m", "a", "i", "l", " ", "i", "s", " ",
       "z", "h", "e", "f", "a", "n", ".", "g", "u", "o", "@", "u", "c", "o", "n", "n",
       ".", "e", "d", "u", ".", "\n", "\n", "U", "s", "e", "r", ":", " ", "t", "e", "l",
       "l", " ", "m", "e", " ", "w", "h", "o", " ", "y", "o", "u", " ", "a", "r", "e",
       "\n", "A", "s", "s", "i", "s", "t", "a", "n", "t", ":", " ", "I", "'", "m", " ",
       "B", "e", "n", "B", "o", "t", " ", "EMDASH", " ", "a", " ", "s", "m", "a", "l", "l",
       " ", "a", "s", "s", "i", "s", "t", "a", "n", "t", " ", "o", "n", " ", "B", "e",
       "n", "'", "s", " ", "w", "e", "b", "s", "i", "t", "e", ".", " ", "I", " ", "c",
       "a", "n", " ", "h", "e", "l", "p", " ", "w", "i", "t", "h", " ", "B", "e", "n",
       "'", "s", " ", "b", "a", "c", "k", "g", "r", "o", "u", "n", "d", ",", " ", "p",
       "r", "o", "j", "e", "c", "t", "s", ",", " ", "a", "n", "d", " ", "l", "i", "n",
       "k", "s", " ", "(", "b", "a", "s", "e", "d", " ", "o", "n", "l", "y", " ", "o",
       "n", " ", "w", "h", "a", "t", "'", "s", " ", "l", "i", "s", "t", "e", "d", " ",
       "o", "n", " ", "t", "h", "e", " ", "s", "i", "t", "e", ")", ".", "\n", "\n", "U",
       "s", "e", "r", ":", " ", "t", "e", "l", "l", " ", "m", "e", " ", "w", "h", "o",
       " ", "i", "s", " ", "B", "e", "n", "\n", "A", "s", "s", "i", "s", "t", "a", "n",
       "t", ":", " ", "B", "e", "n", " ", "(", "Z", "h", "e", "f", "a", "n", " ", "G",
       "u", "o", ")", " ", "i", "s", " ", "a", " ", "C", "o", "m", "p", "u", "t", "e",
       "r", " ", "S", "c", "i", "e", "n", "c", "e", " ", "m", "a", "j", "o", "r", " ",
       "w", "i", "t", "h", " ", "a", " ", "M", "a", "t", "h", "e", "m", "a", "t", "i",
       "c", "s", " ", "m", "i", "n", "o", "r", " ", "a", "t", " ", "U", "C", "o", "n",
       "n", ",", " ", "g", "r", "a", "d", "u", "a", "t", "i", "n", "g", " ", "i", "n",
       " ", "2", "0", "2", "6", ".", " ", "W", "a", "n", "t", " ", "h", "i", "s", " ",
       "p", "r", "o", "j", "e", "c", "t", "s", " ", "o", "r", " ", "l", "i", "n", "k",
       "s", "?", "\n" >>

style_examples == Strip(style_examples_literal)

KnowledgeBasePrefix ==
    << "K", "n", "o", "w", "l", "e", "d", "g", "e", " ", "B", "a", "s", "e", ":", "\n" >>

BearerPrefix ==
    << "B", "e", "a", "r", "e", "r", " " >>

ModelName ==
    << "d", "e", "e", "p", "s", "e", "e", "k", "-", "c", "h", "a", "t" >>

\* "temperature": 0.5
Temperature == "0.5"

ErrorKey ==
    << "e", "r", "r", "o", "r" >>

MessageKey ==
    << "m", "e", "s", "s", "a", "g", "e" >>

ChoicesKey ==
    << "c", "h", "o", "i", "c", "e", "s" >>

ContentKey ==
    << "c", "o", "n", "t", "e", "n", "t" >>

AnswerKey ==
    << "a", "n", "s", "w", "e", "r" >>

DetailKey ==
    << "d", "e", "t", "a", "i", "l" >>

InsufficientBalance ==
    << "i", "n", "s", "u", "f", "f", "i", "c", "i", "e", "n", "t", " ", "b", "a", "l",
       "a", "n", "c", "e" >>

UnavailableAnswer ==
    << "B", "e", "n", "B", "o", "t", " ", "i", "s", " ", "t", "e", "m", "p", "o", "r",
       "a", "r", "i", "l", "y", " ", "u", "n", "a", "v", "a", "i", "l", "a", "b", "l",
       "e", " ", "(", "A", "P", "I", " ", "b", "a", "l", "a", "n", "c", "e", " ", "i",
       "s", " ", "n", "o", "t", " ", "s", "e", "t", " ", "u", "p", " ", "y", "e", "t",
       ")", ".", " ", "P", "l", "e", "a", "s", "e", " ", "c", "h", "e", "c", "k", " ",
       "b", "a", "c", "k", " ", "l", "a", "t", "e", "r", " ", "o", "r", " ", "u", "s",
       "e", " ", "t", "h", "e", " ", "c", "o", "n", "t", "a", "c", "t", " ", "e", "m",
       "a", "i", "l", ":", " ", "z", "h", "e", "f", "a", "n", ".", "g", "u", "o", "@",
       "u", "c", "o", "n", "n", ".", "e", "d", "u", "." >>

ApiErrorPrefix ==
    << "D", "e", "e", "p", "S", "e", "e", "k", " ", "A", "P", "I", " ", "e", "r", "r",
       "o", "r", ":", " " >>

NoResponseAnswer ==
    << "S", "o", "r", "r", "y", " ", "EMDASH", " ", "n", "o", " ", "r", "e", "s", "p", "o",
       "n", "s", "e", "." >>

\* The body of the 500 the framework answers when the handler raises an
\* exception that is no HTTPException.
InternalServerError ==
    << "I", "n", "t", "e", "r", "n", "a", "l", " ", "S", "e", "r", "v", "e", "r", " ",
       "E", "r", "r", "o", "r" >>

----------------------------------------------------------------------------
\* The handler, up to its suspension point (src/main.py lines 41-106).

\* A variant of CredentialMissing: `if api_key is None`.
CredentialUnset(key) == key.t = "None"

\* if not api_key
CredentialMissing(key) == ~Truthy(key)

\* A variant of LastUser: the scan runs from the oldest message.
RECURSIVE FirstUser(_)
FirstUser(messages) ==
    IF messages = << >> THEN << >>
    ELSE IF Head(messages).role = "user" THEN Head(messages).content
    ELSE FirstUser(Tail(messages))

\* for m in reversed(req.messages): if m.role == "user": last_user = m.content; break
RECURSIVE LastUser(_)
LastUser(messages) ==
    IF messages = << >> THEN << >>
    ELSE LET m == messages[Len(messages)]
         IN  IF m.role = "user" THEN m.content
             ELSE LastUser(SubSeq(messages, 1, Len(messages) - 1))

\* A variant of NormalizeKb: kb = req.kb or ""
NormalizeKbNoStrip(reqkb) == Or(reqkb, PyStr(<< >>)).v

\* kb = (req.kb or "").strip()
NormalizeKb(reqkb) == Strip(Or(reqkb, PyStr(<< >>)).v)

\* payload["messages"]
PayloadMessages(kbv, lastUser) ==
    << Msg("system", system_prompt),
       Msg("system", style_examples),
       Msg("system", KnowledgeBasePrefix \o kbv),
       Msg("user", lastUser) >>

\* The arguments of client.post(DEEPSEEK_API_URL, headers=headers, json=payload).
UpstreamCall(key, kbv, lastUser) ==
    ClientPost(DEEPSEEK_API_URL,
               Headers(BearerPrefix \o key.v),
               Payload(ModelName, Temperature, PayloadMessages(kbv, lastUser)),
               ClientTimeout)

----------------------------------------------------------------------------
\* The handler, after its suspension point (src/main.py lines 107-124).

\* return {"answer": x}: HTTP 200
AnswerReply(x) == Response(200, PyDict(<< << AnswerKey, x >> >>))

\* raise HTTPException(status_code=500, detail=text)
HttpException(text) == Response(500, PyDict(<< << DetailKey, PyStr(text) >> >>))

\* An exception the handler does not catch: the framework answers 500.
Unhandled == Response(500, PyStr(InternalServerError))

\* (data.get("error") or {}).get("message") or data.get("message") or str(data)
ErrorMessage(data) ==
    IF data.t # "dict" THEN Raised
    ELSE LET e == Or(Get(data, ErrorKey), PyDict(<< >>))
         IN  IF e.t # "dict" THEN Raised
             ELSE Value(Or(Get(e, MessageKey),
                           Or(Get(data, MessageKey), PyStr(Str(data)))))

\* "insufficient balance" in str(msg).lower()
IsInsufficientBalance(msg) == Contains(Lower(Str(msg)), InsufficientBalance)

\* The branch r.status_code >= 400.
ErrorReply(data) ==
    LET msg == ErrorMessage(data)
    IN  IF msg.raised THEN Unhandled
        ELSE IF IsInsufficientBalance(msg.val)
             THEN AnswerReply(PyStr(UnavailableAnswer))
             ELSE AnswerReply(PyStr(ApiErrorPrefix \o Str(msg.val)))

\* x[0]
Index0(x) ==
    CASE x.t = "list" /\ Len(x.v) > 0 -> Value(x.v[1])
      [] x.t = "str" /\ Len(x.v) > 0  -> Value(PyStr(<< x.v[1] >>))
      [] OTHER                        -> Raised

\* ((data.get("choices") or [{}])[0].get("message") or {}).get("content")
FirstChoiceContent(data) ==
    IF data.t # "dict" THEN Raised
    ELSE LET first == Index0(Or(Get(data, ChoicesKey), PyList(<< PyDict(<< >>) >>)))
         IN  IF first.raised \/ first.val.t # "dict" THEN Raised
             ELSE LET message == Or(Get(first.val, MessageKey), PyDict(<< >>))
                  IN  IF message.t # "dict" THEN Raised
                      ELSE Value(Get(message, ContentKey))

\* The branch r.status_code < 400.
SuccessReply(data) ==
    LET content == FirstChoiceContent(data)
    IN  IF content.raised THEN Unhandled
        ELSE AnswerReply(Or(content.val, PyStr(NoResponseAnswer)))

\* r.status_code >= 400
IsErrorStatus(status_code) == status_code >= 400

\* A variant of Reply: `except Exception as e: return {"answer": str(e)}`.
ReplyTransportAsAnswer(o) ==
    IF o.kind # "json" THEN AnswerReply(PyStr(o.text))
    ELSE IF IsErrorStatus(o.status_code) THEN ErrorReply(o.data)
    ELSE SuccessReply(o.data)

\* What the handler answers once the upstream call has produced outcome o.
Reply(o) ==
    IF o.kind # "json" THEN HttpException(o.text)
    ELSE IF IsErrorStatus(o.status_code) THEN ErrorReply(o.data)
    ELSE SuccessReply(o.data)

----------------------------------------------------------------------------
\* Inputs: the process environment, the request bodies, the upstream outcomes.

SecretKey ==
    << "s", "k", "-", "1" >>

\* os.getenv("DEEPSEEK_API_KEY"): unset, empty, set
ApiKeys == << PyNone, PyStr(<< >>), PyStr(SecretKey) >>

TextFirst ==
    << "f", "i", "r", "s", "t", " ", "q", "u", "e", "s", "t", "i", "o", "n" >>

TextSecond ==
    << "s", "e", "c", "o", "n", "d", "?" >>

TextReply ==
    << "a", "n", " ", "a", "n", "s", "w", "e", "r" >>

TextShout ==
    << "n", "o", "t", " ", "a", " ", "u", "s", "e", "r" >>

\* Msg values: role and content are any str
Msgs ==
    { Msg("user", TextFirst),
      Msg("user", TextSecond),
      Msg("assistant", TextReply),
      Msg("User", TextShout) }

RECURSIVE SeqsUpTo(_, _)
SeqsUpTo(S, n) ==
    IF n = 0 THEN { << >> }
    ELSE LET shorter == SeqsUpTo(S, n - 1)
         IN  shorter \cup { Append(s, x) : s \in shorter, x \in S }

KbPadded ==
    << " ", "\t", "B", "e", "n", " ", "s", "t", "u", "d", "i", "e", "s", " ", "a", "t",
       " ", "U", "C", "o", "n", "n", ".", " ", "\n" >>

KbBlank ==
    << "\t", " ", "\n" >>

\* ChatReq.kb: Optional[str]
KbValues == << PyNone, PyStr(KbPadded), PyStr(KbBlank) >>

\* ChatReq values
Requests ==
    { ChatReq(ms, KbValues[k]) : ms \in SeqsUpTo(Msgs, MaxMsgs), k \in 1..Len(KbValues) }

\* ChatReq(): messages = [], kb = None
DefaultRequest == ChatReq(<< >>, PyNone)

\* r.status_code of the upstream response
StatusCodes == { 200, 399, 400, 500 }

TextHello ==
    << "H", "e", "l", "l", "o" >>

TextOther ==
    << "S", "e", "c", "o", "n", "d", " ", "c", "h", "o", "i", "c", "e" >>

TextBalance ==
    << "I", "n", "s", "u", "f", "f", "i", "c", "i", "e", "n", "t", " ", "B", "a", "l",
       "a", "n", "c", "e" >>

TextBalanceUpper ==
    << "E", "r", "r", "o", "r", ":", " ", "I", "N", "S", "U", "F", "F", "I", "C", "I",
       "E", "N", "T", " ", "B", "A", "L", "A", "N", "C", "E", ",", " ", "t", "o", "p",
       " ", "u", "p" >>

TextBalanceNear ==
    << "i", "n", "s", "u", "f", "f", "i", "c", "i", "e", "n", "t", " ", " ", "b", "a",
       "l", "a", "n", "c", "e" >>

TextBadRequest ==
    << "b", "a", "d", " ", "r", "e", "q", "u", "e", "s", "t" >>

TextInvalidKey ==
    << "I", "t", "'", "s", " ", "a", "n", " ", "i", "n", "v", "a", "l", "i", "d", " ",
       "k", "e", "y" >>

TextRateLimited ==
    << "r", "a", "t", "e", " ", "l", "i", "m", "i", "t", "e", "d" >>

CodeKey ==
    << "c", "o", "d", "e" >>

IdKey ==
    << "i", "d" >>


Choice(content) == PyDict(<< << MessageKey, PyDict(<< << ContentKey, content >> >>) >> >>)

Choices(cs) == PyDict(<< << IdKey, PyInt(7) >>, << ChoicesKey, cs >> >>)

\* r.json(): the JSON bodies the upstream may answer with
Bodies ==
    << Choices(PyList(<< Choice(PyStr(TextHello)) >>)),
       Choices(PyList(<< Choice(PyStr(TextHello)), Choice(PyStr(TextOther)) >>)),
       Choices(PyList(<< Choice(PyStr(<< >>)) >>)),
       Choices(PyList(<< Choice(PyNone) >>)),
       Choices(PyList(<< Choice(PyInt(42)) >>)),
       Choices(PyList(<< Choice(PyInt(0)) >>)),
       Choices(PyList(<< Choice(PyList(<< PyStr(TextHello) >>)) >>)),
       Choices(PyList(<< PyDict(<< << MessageKey, PyDict(<< >>) >> >>) >>)),
       Choices(PyList(<< PyDict(<< << MessageKey, PyNone >> >>) >>)),
       Choices(PyList(<< PyDict(<< >>) >>)),
       Choices(PyList(<< >>)),
       Choices(PyNone),
       PyDict(<< >>),
       Choices(PyList(<< PyNone >>)),
       Choices(PyList(<< PyDict(<< << MessageKey, PyStr(TextHello) >> >>) >>)),
       Choices(PyDict(<< << MessageKey, PyStr(TextHello) >> >>)),
       Choices(PyStr(TextHello)),
       PyDict(<< << ErrorKey, PyDict(<< << MessageKey, PyStr(TextBalance) >> >>) >> >>),
       PyDict(<< << MessageKey, PyStr(TextBalanceUpper) >> >>),
       PyDict(<< << MessageKey, PyStr(TextBalanceNear) >> >>),
       PyDict(<< << MessageKey, PyStr(TextBadRequest) >> >>),
       PyDict(<< << ErrorKey, PyDict(<< << MessageKey, PyStr(TextInvalidKey) >> >>) >>,
                 << MessageKey, PyStr(TextBadRequest) >> >>),
       PyDict(<< << ErrorKey, PyDict(<< << MessageKey, PyStr(<< >>) >> >>) >>,
                 << MessageKey, PyStr(TextBadRequest) >> >>),
       PyDict(<< << ErrorKey, PyNone >>, << MessageKey, PyStr(TextBadRequest) >> >>),
       PyDict(<< << ErrorKey, PyDict(<< << CodeKey, PyInt(402) >> >>) >> >>),
       PyDict(<< << ErrorKey, PyDict(<< << MessageKey, PyInt(402) >> >>) >> >>),
       PyDict(<< << DetailKey, PyStr(TextBalance) >> >>),
       PyDict(<< << DetailKey, PyStr(TextInvalidKey) >> >>),
       PyDict(<< << ErrorKey, PyStr(TextRateLimited) >> >>),
       PyList(<< >>),
       PyList(<< PyDict(<< << MessageKey, PyStr(TextBadRequest) >> >>) >>),
       PyStr(TextBadRequest),
       PyNone >>

TextConnect ==
    << "A", "l", "l", " ", "c", "o", "n", "n", "e", "c", "t", "i", "o", "n", " ", "a",
       "t", "t", "e", "m", "p", "t", "s", " ", "f", "a", "i", "l", "e", "d" >>

TextJsonDecode ==
    << "E", "x", "p", "e", "c", "t", "i", "n", "g", " ", "v", "a", "l", "u", "e", ":",
       " ", "l", "i", "n", "e", " ", "1", " ", "c", "o", "l", "u", "m", "n", " ", "1",
       " ", "(", "c", "h", "a", "r", " ", "0", ")" >>

\* str(e) of the exceptions client.post raises: a connection failure, a timeout
\* (whose text is empty)
PostErrors == { TextConnect, << >> }

\* str(e) of the exceptions r.json() raises on a body that is no JSON
JsonErrors == { TextJsonDecode }

NoOutcome == Outcome("none", 0, << >>, PyNone)

\* client.post raised: no response was obtained
PostRaises(text) == Outcome("post", 0, text, PyNone)

\* a response arrived and r.json() raised
JsonRaises(status_code, text) == Outcome("decode", status_code, text, PyNone)

\* a response arrived and r.json() returned data
JsonBody(status_code, data) == Outcome("json", status_code, << >>, data)

----------------------------------------------------------------------------
\* The state machine.

InitOf(ids) ==
    /\ \E k \in 1..Len(ApiKeys) : api_key = ApiKeys[k]
    /\ pc = [i \in ids |-> "idle"]
    /\ req = [i \in ids |-> DefaultRequest]
    /\ last_user = [i \in ids |-> << >>]
    /\ kb = [i \in ids |-> << >>]
    /\ sent = [i \in ids |-> << >>]
    /\ outcome = [i \in ids |-> NoOutcome]
    /\ responses = [i \in ids |-> << >>]

\* A variant of Receive: last_user is a module-level variable, set when a user
\* message is found and never reset.
ReceiveSharedLastUser(i, r) ==
    LET own == LastUser(r.messages)
        others == { j \in DOMAIN pc : j # i /\ last_user[j] # << >> }
        lu == IF own = << >> /\ others # {}
              THEN last_user[CHOOSE j \in others : TRUE]
              ELSE own
    IN  /\ pc[i] = "idle"
        /\ req' = [req EXCEPT ![i] = r]
        /\ IF CredentialMissing(api_key)
           THEN /\ responses' = [responses EXCEPT
                                    ![i] = Append(@, AnswerReply(PyStr(MisconfiguredAnswer)))]
                /\ pc' = [pc EXCEPT ![i] = "done"]
                /\ UNCHANGED << last_user, kb, sent >>
           ELSE /\ last_user' = [last_user EXCEPT ![i] = lu]
                /\ kb' = [kb EXCEPT ![i] = NormalizeKb(r.kb)]
                /\ sent' = [sent EXCEPT
                               ![i] = Append(@, UpstreamCall(api_key, NormalizeKb(r.kb), lu))]
                /\ pc' = [pc EXCEPT ![i] = "awaiting"]
                /\ UNCHANGED responses
        /\ UNCHANGED << api_key, outcome >>

\* chat(req), lines 41-106: from the call of the handler to its return (no
\* credential) or to its suspension at `await client.post(...)`.
Receive(i, r) ==
    /\ pc[i] = "idle"
    /\ req' = [req EXCEPT ![i] = r]
    /\ IF CredentialMissing(api_key)
       THEN /\ responses' = [responses EXCEPT
                                ![i] = Append(@, AnswerReply(PyStr(MisconfiguredAnswer)))]
            /\ pc' = [pc EXCEPT ![i] = "done"]
            /\ UNCHANGED << last_user, kb, sent >>
       ELSE /\ last_user' = [last_user EXCEPT ![i] = LastUser(r.messages)]
            /\ kb' = [kb EXCEPT ![i] = NormalizeKb(r.kb)]
            /\ sent' = [sent EXCEPT
                           ![i] = Append(@, UpstreamCall(api_key, NormalizeKb(r.kb),
                                                         LastUser(r.messages)))]
            /\ pc' = [pc EXCEPT ![i] = "awaiting"]
            /\ UNCHANGED responses
    /\ UNCHANGED << api_key, outcome >>

\* A variant of Complete: the call is issued once more after a transport
\* failure or an error status.
CompleteWithRetry(i, o) ==
    /\ pc[i] = "awaiting"
    /\ outcome' = [outcome EXCEPT ![i] = o]
    /\ IF Len(sent[i]) < 2 /\ (o.kind # "json" \/ IsErrorStatus(o.status_code))
       THEN /\ sent' = [sent EXCEPT ![i] = Append(@, sent[i][1])]
            /\ UNCHANGED << responses, pc >>
       ELSE /\ responses' = [responses EXCEPT ![i] = Append(@, Reply(o))]
            /\ pc' = [pc EXCEPT ![i] = "done"]
            /\ UNCHANGED sent
    /\ UNCHANGED << api_key, req, last_user, kb >>

\* chat(req), lines 106-124: the upstream call produces outcome o and the
\* handler runs to its return or raise.
Complete(i, o) ==
    /\ pc[i] = "awaiting"
    /\ outcome' = [outcome EXCEPT ![i] = o]
    /\ responses' = [responses EXCEPT ![i] = Append(@, Reply(o))]
    /\ pc' = [pc EXCEPT ![i] = "done"]
    /\ UNCHANGED << api_key, req, last_user, kb, sent >>

\* The upstream call of request i ends: it raised, or a response arrived whose
\* body is or is not JSON.
PostFails(i) == \E text \in PostErrors : Complete(i, PostRaises(text))

DecodeFails(i) ==
    \E s \in StatusCodes, text \in JsonErrors : Complete(i, JsonRaises(s, text))

JsonArrives(i) ==
    \E data \in { Bodies[k] : k \in 1..Len(Bodies) }, s \in StatusCodes :
        Complete(i, JsonBody(s, data))

\* One request at a time.
Init == InitOf({1})

Arrive == \E r \in Requests : Receive(1, r)

UpstreamRaises == PostFails(1)

UpstreamUndecodable == DecodeFails(1)

UpstreamAnswers == JsonArrives(1)

Next == Arrive \/ UpstreamRaises \/ UpstreamUndecodable \/ UpstreamAnswers

Spec == Init /\ [][Next]_vars

\* Requests handled concurrently: every interleaving of the handlers' two steps.
ConcRequests ==
    << DefaultRequest,
       ChatReq(<< Msg("user", TextFirst) >>, PyStr(KbPadded)),
       ChatReq(<< Msg("user", TextSecond), Msg("assistant", TextReply) >>, PyNone) >>

ConcOutcomes ==
    << PostRaises(TextConnect),
       JsonBody(200, Bodies[1]),
       JsonBody(400, PyDict(<< << MessageKey, PyStr(TextBadRequest) >> >>)),
       JsonBody(200, PyList(<< >>)) >>

InitConc == InitOf(1..NumReq)

ArriveConc == \E i \in 1..NumReq, k \in 1..Len(ConcRequests) : Receive(i, ConcRequests[k])

UpstreamEndsConc ==
    \E i \in 1..NumReq, k \in 1..Len(ConcOutcomes) : Complete(i, ConcOutcomes[k])

NextConc == ArriveConc \/ UpstreamEndsConc

SpecConc == InitConc /\ [][NextConc]_vars

----------------------------------------------------------------------------
\* Vocabulary of the properties.

Ids == DOMAIN pc

\* key in d
HasKey(d, key) == \E k \in 1..Len(d.v) : d.v[k][1] = key

Done(i) == pc[i] = "done"

CredentialPresent == api_key.t = "str" /\ Len(api_key.v) > 0

\* The response of a request that was answered.
TheResponse(i) == responses[i][1]

\* A body {"answer": ...} and nothing else.
IsAnswerBody(body) == body.t = "dict" /\ Len(body.v) = 1 /\ body.v[1][1] = AnswerKey

StartsWith(s, prefix) == Len(s) >= Len(prefix) /\ SubSeq(s, 1, Len(prefix)) = prefix

\* The upstream call failed at transport level: it raised, or its body is no JSON.
TransportFailure(o) == o.kind \in { "post", "decode" }

\* The positions of the messages whose role is exactly "user".
UserPositions(messages) == { k \in 1..Len(messages) : messages[k].role = "user" }

\* text is the content of the highest-index user message, "" when there is none.
IsLatestUserContent(text, messages) ==
    IF UserPositions(messages) = {} THEN text = << >>
    ELSE \E k \in UserPositions(messages) :
            /\ \A j \in UserPositions(messages) : j <= k
            /\ text = messages[k].content

\* t is s without its leading and trailing whitespace.
IsTrimOf(t, s) ==
    /\ t = << >> \/ (t[1] \notin Whitespace /\ t[Len(t)] \notin Whitespace)
    /\ \E a \in 0..Len(s) :
          /\ a + Len(t) <= Len(s)
          /\ t = SubSeq(s, a + 1, a + Len(t))
          /\ \A k \in 1..Len(s) : (k <= a \/ k > a + Len(t)) => s[k] \in Whitespace

\* The str of an Optional[str] field, "" when it is None.
TextOf(x) == IF x.t = "str" THEN x.v ELSE << >>

ServerMisconfigured ==
    << "S", "e", "r", "v", "e", "r", " ", "m", "i", "s", "c", "o", "n", "f", "i", "g",
       "u", "r", "e", "d" >>

----------------------------------------------------------------------------
\* C1: the chat endpoint answers with a non-200 status only when the upstream
\* call suffered a transport error; whenever the upstream returned a parseable
\* JSON body of any shape, at any status, the response is HTTP 200 with body
\* {answer}.
C1_Non200OnlyOnTransportError ==
    \A i \in Ids :
        Done(i) =>
            /\ TheResponse(i).status_code # 200 => TransportFailure(outcome[i])
            /\ outcome[i].kind = "json" =>
                   /\ TheResponse(i).status_code = 200
                   /\ IsAnswerBody(TheResponse(i).body)

\* C2: last_user is the content of the highest-index message whose role is
\* exactly "user", and the empty string when no message has that role (an empty
\* messages list included); earlier messages and later non-user messages do not
\* change it.
C2_LastUserIsLatestUserTurn ==
    \A i \in Ids :
        (pc[i] # "idle" /\ CredentialPresent) =>
            IsLatestUserContent(last_user[i], req[i].messages)

\* A request whose latest user turn has an earlier user turn before it and an
\* assistant turn after it has been handled.
C2_Witness ==
    \E i \in Ids :
        /\ pc[i] # "idle" /\ CredentialPresent
        /\ Len(req[i].messages) = 3
        /\ req[i].messages[1] = Msg("user", TextFirst)
        /\ req[i].messages[2] = Msg("user", TextSecond)
        /\ req[i].messages[3].role = "assistant"
        /\ last_user[i] = TextSecond

\* C3: with the credential unset or empty, the handler answers HTTP 200 with an
\* answer beginning "Server misconfigured", whatever the request holds, and
\* makes no upstream call.
C3_MissingCredentialSoftFails ==
    \A i \in Ids :
        (api_key = PyNone \/ api_key = PyStr(<< >>)) =>
            /\ sent[i] = << >>
            /\ pc[i] # "awaiting"
            /\ Done(i) =>
                   /\ Len(responses[i]) = 1
                   /\ TheResponse(i).status_code = 200
                   /\ IsAnswerBody(TheResponse(i).body)
                   /\ Get(TheResponse(i).body, AnswerKey).t = "str"
                   /\ StartsWith(Get(TheResponse(i).body, AnswerKey).v, ServerMisconfigured)

\* With an empty credential, a request with messages and a kb has been answered.
C3_Witness ==
    \E i \in Ids :
        /\ api_key = PyStr(<< >>)
        /\ Done(i)
        /\ Len(req[i].messages) > 1
        /\ req[i].kb = PyStr(KbPadded)
        /\ sent[i] = << >>

\* The error message as C4 states it: error.message if present, otherwise the
\* top-level message if present, otherwise the stringified body.
C4_StatedMessage(data) ==
    IF /\ data.t = "dict" /\ HasKey(data, ErrorKey)
       /\ Get(data, ErrorKey).t = "dict" /\ HasKey(Get(data, ErrorKey), MessageKey)
    THEN Get(Get(data, ErrorKey), MessageKey)
    ELSE IF data.t = "dict" /\ HasKey(data, MessageKey)
    THEN Get(data, MessageKey)
    ELSE PyStr(Str(data))

\* C4: on an upstream status >= 400 with a JSON body the response is HTTP 200;
\* the message is error.message if present, else the top-level message if
\* present, else the stringified body; the answer is the fixed unavailability
\* text when the message contains "insufficient balance" in any letter case,
\* and "DeepSeek API error: " followed by the message otherwise.
C4_ErrorStatusAnswer ==
    \A i \in Ids :
        (Done(i) /\ outcome[i].kind = "json" /\ outcome[i].status_code >= 400) =>
            LET msg == C4_StatedMessage(outcome[i].data)
            IN  TheResponse(i) =
                    Response(200, PyDict(<< << AnswerKey,
                        PyStr(IF Contains(Lower(Str(msg)), InsufficientBalance)
                              THEN UnavailableAnswer
                              ELSE ApiErrorPrefix \o Str(msg)) >> >>))

\* choices[0].message.content is structurally there: choices is a non-empty
\* list, its first element has a message, and the message has a content.
C5_ContentPresent(data) ==
    /\ data.t = "dict" /\ HasKey(data, ChoicesKey)
    /\ Get(data, ChoicesKey).t = "list" /\ Len(Get(data, ChoicesKey).v) > 0
    /\ Get(data, ChoicesKey).v[1].t = "dict"
    /\ HasKey(Get(data, ChoicesKey).v[1], MessageKey)
    /\ Get(Get(data, ChoicesKey).v[1], MessageKey).t = "dict"
    /\ HasKey(Get(Get(data, ChoicesKey).v[1], MessageKey), ContentKey)

\* C5: on an upstream status < 400 the response is HTTP 200 with answer
\* choices[0].message.content, and the fallback "Sorry - no response." exactly
\* when that content is structurally absent.
C5_SuccessStatusAnswer ==
    \A i \in Ids :
        (Done(i) /\ outcome[i].kind = "json" /\ outcome[i].status_code < 400) =>
            LET data == outcome[i].data
            IN  /\ TheResponse(i).status_code = 200
                /\ IsAnswerBody(TheResponse(i).body)
                /\ Get(TheResponse(i).body, AnswerKey) =
                       IF C5_ContentPresent(data)
                       THEN Get(Get(Get(data, ChoicesKey).v[1], MessageKey), ContentKey)
                       ELSE PyStr(NoResponseAnswer)

\* C6: when the upstream call fails at transport level (sending, waiting within
\* the timeout, or decoding the body) the response is HTTP 500 whose detail is
\* the exception's text, and no {answer} body is returned for the request.
C6_TransportFailureIs500 ==
    \A i \in Ids :
        (Done(i) /\ TransportFailure(outcome[i])) =>
            /\ Len(responses[i]) = 1
            /\ TheResponse(i).status_code = 500
            /\ TheResponse(i).body.t = "dict"
            /\ HasKey(TheResponse(i).body, DetailKey)
            /\ Get(TheResponse(i).body, DetailKey) = PyStr(outcome[i].text)
            /\ ~HasKey(TheResponse(i).body, AnswerKey)

\* A response with a success status whose body is no JSON has been handled.
C6_Witness ==
    \E i \in Ids :
        /\ Done(i)
        /\ outcome[i] = JsonRaises(200, TextJsonDecode)
        /\ TheResponse(i).status_code = 500

\* C7: with a credential, the payload sent upstream holds exactly four messages
\* in this order: system (persona and rules), system (style examples), system
\* ("Knowledge Base:" newline, then kb trimmed, kb being "" when absent), user
\* (last_user); no other message of the request is in the payload.
C7_PayloadIsFourMessages ==
    \A i \in Ids :
        (pc[i] # "idle" /\ CredentialPresent) =>
            /\ Len(sent[i]) >= 1
            /\ \A n \in 1..Len(sent[i]) :
                  LET ms == sent[i][n].json.messages
                  IN  /\ Len(ms) = 4
                      /\ ms[1] = Msg("system", system_prompt)
                      /\ ms[2] = Msg("system", style_examples)
                      /\ ms[3].role = "system"
                      /\ StartsWith(ms[3].content, KnowledgeBasePrefix)
                      /\ IsTrimOf(SubSeq(ms[3].content, Len(KnowledgeBasePrefix) + 1,
                                         Len(ms[3].content)),
                                  TextOf(req[i].kb))
                      /\ ms[4].role = "user"
                      /\ IsLatestUserContent(ms[4].content, req[i].messages)

\* A payload has been sent for a request with a padded kb, two user turns and
\* an assistant turn.
C7_Witness ==
    \E i \in Ids :
        /\ pc[i] # "idle" /\ CredentialPresent
        /\ req[i].kb = PyStr(KbPadded)
        /\ Len(req[i].messages) = 3
        /\ UserPositions(req[i].messages) = { 1, 2 }
        /\ req[i].messages[1].content # req[i].messages[2].content
        /\ Len(sent[i]) = 1

\* C8: a request causes at most one upstream call and exactly one response:
\* one call with a credential, none without, and no second call after an
\* upstream error status or a transport failure.
C8_OneCallOneResponse ==
    \A i \in Ids :
        /\ Len(sent[i]) <= 1
        /\ Len(responses[i]) <= 1
        /\ pc[i] = "idle" => (sent[i] = << >> /\ responses[i] = << >>)
        /\ pc[i] = "awaiting" => (Len(sent[i]) = 1 /\ responses[i] = << >>)
        /\ Done(i) =>
               /\ Len(responses[i]) = 1
               /\ Len(sent[i]) = IF CredentialPresent THEN 1 ELSE 0

\* A request whose upstream call ended with an error status has been answered.
C8_Witness ==
    \E i \in Ids :
        /\ Done(i)
        /\ outcome[i].kind = "json"
        /\ outcome[i].status_code = 500
        /\ Len(sent[i]) = 1
        /\ Len(responses[i]) = 1

\* C9: under every interleaving of concurrently handled requests, a request's
\* payload and response are a function of its own body, the credential and the
\* outcome of its own upstream call; and a request waiting on the upstream
\* prevents no other request from being received or completed.
C9_RequestsAreIndependent ==
    \A i \in Ids :
        /\ (pc[i] # "idle" /\ CredentialPresent) =>
               sent[i] = << UpstreamCall(api_key, NormalizeKb(req[i].kb),
                                         LastUser(req[i].messages)) >>
        /\ (pc[i] # "idle" /\ ~CredentialPresent) => sent[i] = << >>
        /\ Done(i) =>
               responses[i] = << IF CredentialPresent
                                 THEN Reply(outcome[i])
                                 ELSE AnswerReply(PyStr(MisconfiguredAnswer)) >>
        /\ pc[i] = "idle" => ENABLED (\E k \in 1..Len(ConcRequests) : Receive(i, ConcRequests[k]))
        /\ pc[i] = "awaiting" =>
               ENABLED (\E k \in 1..Len(ConcOutcomes) : Complete(i, ConcOutcomes[k]))

\* A request without a user turn waits on the upstream while another request,
\* with a user turn and another kb, has been answered from its own JSON body.
C9_Witness ==
    \E i, j \in Ids :
        /\ i # j /\ CredentialPresent
        /\ pc[i] = "awaiting" /\ Done(j)
        /\ req[i] = DefaultRequest
        /\ req[j] = ConcRequests[2]
        /\ outcome[j].kind = "json"
        /\ last_user[i] = << >> /\ last_user[j] = TextFirst

\* C10: every HTTP 200 response carries an answer that is a non-empty string,
\* for every request and every upstream JSON body.
C10_AnswerIsNonEmptyString ==
    \A i \in Ids :
        (Done(i) /\ TheResponse(i).status_code = 200) =>
            /\ IsAnswerBody(TheResponse(i).body)
            /\ Get(TheResponse(i).body, AnswerKey).t = "str"
            /\ Len(Get(TheResponse(i).body, AnswerKey).v) > 0
====
